---- MODULE Spec2Model ----
(***************************************************************************)
(* Model of the playback engine of conversation-replay: the player script  *)
(* that generateJs (src/src/generator.ts) writes into the HTML document,   *)
(* and the speed configuration it receives from the parser                 *)
(* (src/src/parser.ts).                                                    *)
(*                                                                         *)
(* Time.  All durations are whole numbers of ticks, TicksPerMs ticks to    *)
(* the millisecond (a quarter of a millisecond), so that a base delay in   *)
(* whole milliseconds divided by any speed option is exact.  The clock is  *)
(* relative: a pending timeout carries the time left until it is due, and  *)
(* timerElapsed is Date.now() - timerStartTime.  setTimeout is the ideal   *)
(* timer: the callback runs exactly when the delay has passed, and of two  *)
(* timeouts that are due the one set first runs first.                     *)
(*                                                                         *)
(* Speed.  The speed options 0.5, 1, 2, 4 are stored as their numerators   *)
(* over SpeedDen: 1, 2, 4, 8.  All player arithmetic on them is done in    *)
(* whole ticks; the speed-change handler is taken only at instants where   *)
(* its two divisions are exact, which is where the double arithmetic of    *)
(* the script and this integer arithmetic agree.                           *)
(***************************************************************************)
EXTENDS Integers, Sequences, FiniteSets, TLC

(***************************************************************************)
(* Bounds of the model.                                                    *)
(***************************************************************************)
\* User events (clicks, keys, speed changes, visibility changes) per run.
MaxEvents == 3
\* The clock advances by this many milliseconds, or up to the next timeout.
TickMs == 1000
\* Timeout callbacks followed after the last user event.
MaxQuiet == 10
\* The longest text, in words, of the steps the delay calculator is given.
MaxWords == 6
\* The scenarios of a demo given to the parser: up to MaxScenarios.
MaxScenarios == 3

(***************************************************************************)
(* Program constants.                                                      *)
(***************************************************************************)
SpeedDen == 2
Speeds == {1, 2, 4, 8}
InitialSpeed == SpeedDen
TicksPerMs == 2 * SpeedDen
DefaultMinDelay == 3000
DefaultMaxDelay == 8000
DefaultMsPerWord == 200
DefaultUpNextDelay == 2500
\* 1.15, written as a fraction; the script holds the double nearest to it.
DefaultAnnotationMultiplier == [n |-> 115, d |-> 100]
AdvanceFadeMs == 300
TabFadeMs == 300

Min(a, b) == IF a < b THEN a ELSE b
Max(a, b) == IF a > b THEN a ELSE b

(***************************************************************************)
(* Text.  A string is a sequence of characters, "a" for any character that *)
(* is not white space and " " for white space.                             *)
(***************************************************************************)
RECURSIVE Words(_)
Words(n) == IF n <= 0 THEN << >>
            ELSE IF n = 1 THEN <<"a">>
            ELSE Words(n - 1) \o <<" ", "a">>

\* str.split(/\s+/).length: one more than the number of maximal runs of
\* white space (a leading or a trailing run yields an empty piece).
SplitLength(str) ==
  1 + Cardinality({i \in 1..Len(str) :
                     /\ str[i] = " "
                     /\ (i = 1 \/ str[i - 1] # " ")})

\* A JavaScript string is truthy when it is not empty.
Truthy(str) == Len(str) > 0

NoText == << >>

Step(type, plainText, codeBlock, footnote) ==
  [type |-> type, plainText |-> plainText, codeBlock |-> codeBlock,
   footnote |-> footnote]

(***************************************************************************)
(* The speed configuration: parser and generator.                          *)
(***************************************************************************)
\* A raw YAML value of a field of meta.speed.
Undefined == [t |-> "undefined", n |-> 0, d |-> 1]
NotANumber == [t |-> "string", n |-> 0, d |-> 1]
Num(n) == [t |-> "number", n |-> n, d |-> 1]
Frac(n, d) == [t |-> "number", n |-> n, d |-> d]

NumericFields == {"minDelay", "maxDelay", "msPerWord", "annotationMultiplier",
                  "upNextDelay"}

\* typeof value !== 'number' || !Number.isFinite(value) || value < 0
FieldRejected(v) == v.t # "number" \/ v.n < 0

\* minDelay > maxDelay, checked only when the input gives both.
LogicalConstraintBroken(raw) ==
  /\ raw.minDelay.t # "undefined"
  /\ raw.maxDelay.t # "undefined"
  /\ raw.minDelay.n * raw.maxDelay.d > raw.maxDelay.n * raw.minDelay.d

\* validateSpeedConfig: "error" for a ParseError, otherwise the fields given.
validateSpeedConfig(raw) ==
  IF \E f \in NumericFields : raw[f].t # "undefined" /\ FieldRejected(raw[f])
    THEN "error"
  ELSE IF LogicalConstraintBroken(raw) THEN "error"
  ELSE "ok"

\* The numbers of the script: n / d with d > 0, the same number when the
\* cross products agree.
Ratio(n, d) == [n |-> n, d |-> d]

Whole(n) == Ratio(n, 1)

LessEq(a, b) == a.n * b.d <= b.n * a.d

SameNumber(a, b) == a.n * b.d = b.n * a.d

Times(a, b) == Ratio(a.n * b.n, a.d * b.d)

\* demo.meta.speed?.field ?? default
OrDefault(v, default) ==
  IF v.t = "undefined" THEN default ELSE [n |-> v.n, d |-> v.d]

\* The speedConfig object generateJs writes into the script.
GeneratedSpeedConfig(raw) ==
  [minDelay |-> OrDefault(raw.minDelay, Whole(DefaultMinDelay)),
   maxDelay |-> OrDefault(raw.maxDelay, Whole(DefaultMaxDelay)),
   msPerWord |-> OrDefault(raw.msPerWord, Whole(DefaultMsPerWord)),
   annotationMultiplier |->
     OrDefault(raw.annotationMultiplier, DefaultAnnotationMultiplier),
   upNextDelay |-> OrDefault(raw.upNextDelay, Whole(DefaultUpNextDelay))]

(***************************************************************************)
(* The delay calculator.                                                   *)
(***************************************************************************)
wordCount(step) ==
  (IF Truthy(step.plainText) THEN SplitLength(step.plainText) ELSE 0)
  + (IF Truthy(step.codeBlock)
       THEN (SplitLength(step.codeBlock) * 13) \div 10 ELSE 0)
  + (IF Truthy(step.footnote) THEN SplitLength(step.footnote) ELSE 0)

\* Math.max(a, b) and Math.min(a, b)
MathMax(a, b) == IF LessEq(b, a) THEN a ELSE b
MathMin(a, b) == IF LessEq(a, b) THEN a ELSE b

\* The power of two p with p < k <= 2p, for k > 1.
RECURSIVE PowerOfTwoBelow(_)
PowerOfTwoBelow(k) == IF k <= 2 THEN 1 ELSE 2 * PowerOfTwoBelow((k + 1) \div 2)

\* Math.floor(c * m) in the script's double arithmetic.  The numbers of the
\* model are held exactly by a double, and so are their products, but for
\* 1.15: the double nearest to it is 1.15 - 0.4 / 2^52.  A product c * 1.15
\* that is no whole number has the floor of the exact product.  One that is
\* a whole number k (c a multiple of 20) is computed as k when c * 0.4 / 2^52
\* is at most half the distance p / 2^52 between the doubles below k, p the
\* power of two below k, that is when 16 k <= 23 p, and as the double below
\* k otherwise: 3000 * 1.15 gives 3449.9999999999995, 8000 * 1.15 gives 9200.
FloorOfProduct(c, m) ==
  LET exact == (c.n * m.n) \div (c.d * m.d)
  IN IF m.n * 20 = 23 * m.d /\ c.n > 0 /\ c.n % (20 * c.d) = 0
       THEN IF 16 * exact <= 23 * PowerOfTwoBelow(exact) THEN exact ELSE exact - 1
       ELSE exact

\* Math.max(minDelay, Math.min(maxDelay, wordCount * msPerWord)), and for an
\* annotation Math.floor(baseDelay * annotationMultiplier): milliseconds.
baseDelayMs(step, cfg) ==
  LET clamped == MathMax(cfg.minDelay,
                         MathMin(cfg.maxDelay,
                                 Times(Whole(wordCount(step)), cfg.msPerWord)))
  IN IF step.type = "annotation"
       THEN Whole(FloorOfProduct(clamped, cfg.annotationMultiplier))
       ELSE clamped

\* A time / speed, in milliseconds.
OverSpeed(q, spd) == Ratio(q.n * SpeedDen, q.d * spd)

\* calculateDelay: baseDelay / speed, in milliseconds.
calculateDelay(step, cfg, spd) == OverSpeed(baseDelayMs(step, cfg), spd)

\* A time in milliseconds on the clock of the model, in ticks.
Ticks(q) == (q.n * TicksPerMs) \div q.d

\* delay * speed, in ticks: the content time of a delay.
TimesSpeed(ticks, spd) == (ticks * spd) \div SpeedDen

(***************************************************************************)
(* The demo the player is generated for.                                   *)
(***************************************************************************)
ScenarioIds == {"A", "B", "C"}

scenarios ==
  [id \in ScenarioIds |->
     CASE id = "A" ->
            [title |-> "First",
             steps |-> <<Step("user", Words(1), NoText, NoText),
                         Step("ai", Words(5), NoText, NoText)>>]
       [] id = "B" ->
            [title |-> "Second",
             steps |-> <<Step("annotation", Words(3), NoText, NoText)>>]
       [] OTHER ->
            [title |-> "Third",
             steps |-> <<Step("user", Words(2), NoText, NoText),
                         Step("ai", Words(1), Words(6), Words(2)),
                         Step("transition", Words(4), NoText, NoText)>>]]

\* meta.speed of the demo: msPerWord 1000 and annotationMultiplier 1.25, the
\* other fields left to their defaults.
DemoSpeed ==
  [minDelay |-> Undefined, maxDelay |-> Undefined, msPerWord |-> Num(1000),
   annotationMultiplier |-> Frac(5, 4), upNextDelay |-> Undefined]

\* The demos: scenario order and meta.autoAdvance (which has no effect with
\* one scenario).
Demos == {[order |-> <<"A">>, autoAdvance |-> TRUE],
          [order |-> <<"A", "B", "C">>, autoAdvance |-> TRUE],
          [order |-> <<"A", "B", "C">>, autoAdvance |-> FALSE]}

VARIABLES
  \* the generated constants of the script
  scenarioOrder, autoAdvance, prefersReducedMotion, speedConfig,
  \* animation state
  currentScenario, currentStepIndex, isPlaying, isPaused, animationTimeout,
  speed, currentStepBaseDelay, hasStarted,
  \* timer animation
  timerAnimationFrame, timerElapsed, timerDuration,
  \* the requestAnimationFrame(animate) calls of the page that have not run,
  \* and whether the one timerAnimationFrame names is among them
  animateRequests, frameRequested,
  \* the document
  chatMessages, overlayHidden, fading, timerActive, progress,
  pauseIconShown, playPauseDisabled,
  \* the pending timeouts of the page, in the order they were set
  timers,
  \* the configuration pipeline: input, stage, the step and the delay computed
  rawSpeed, pc, stepIn, delayOut,
  \* the parser on the scenarios: the list given, the scenarios of the Demo,
  \* and the message of the ParseError
  rawScenarios, parsedScenarios, parseError,
  \* history: user events so far, whether they were one play and no more,
  \* the timeout callbacks run since the last of them, and the listener or
  \* callback that ran last, with its argument
  events, run, quiet, last

configVars == <<scenarioOrder, autoAdvance, prefersReducedMotion, speedConfig>>
stateVars == <<currentScenario, currentStepIndex, isPlaying, isPaused,
               animationTimeout, speed, currentStepBaseDelay, hasStarted>>
timerVars == <<timerAnimationFrame, timerElapsed, timerDuration,
               animateRequests, frameRequested>>
domVars == <<chatMessages, overlayHidden, fading, timerActive, progress,
             pauseIconShown, playPauseDisabled>>
scenarioVars == <<rawScenarios, parsedScenarios, parseError>>
pipeVars == <<rawSpeed, pc, stepIn, delayOut, scenarioVars>>
vars == <<configVars, stateVars, timerVars, domVars, timers,
          pipeVars, events, run, quiet, last>>

hasMultipleScenarios == Len(scenarioOrder) > 1

StepsOf(id) == scenarios[id].steps

\* scenarioOrder.indexOf(id), from 1
IndexOf(id) == CHOOSE i \in 1..Len(scenarioOrder) : scenarioOrder[i] = id

\* scenarioOrder[(currentIndex + 1) % scenarioOrder.length]
NextScenario(id) == scenarioOrder[(IndexOf(id) % Len(scenarioOrder)) + 1]

StepElement(id, i) == [k |-> "step", s |-> id, i |-> i]
UpNextElement(next) == [k |-> "scenario-ending", s |-> next, i |-> 0]

\* A pending timeout.  History, for the delay of a step: base is the content
\* time of the delay and consumed the content time gone since it began, the
\* wall-clock ticks of each interval times the speed then in force (both in
\* ticks times SpeedDen); base is 0 for any other timeout.
Timeout(kind, delay, held, next, wasPlaying) ==
  [kind |-> kind, remaining |-> delay, held |-> held, next |-> next,
   wasPlaying |-> wasPlaying, stale |-> FALSE, base |-> 0, consumed |-> 0]

\* Date.now() - timerStartTime is kept up to this value: beyond it the speed
\* handler finds no content time left at any speed, and progress is 1.
ElapsedCap ==
  LET all == UNION {{Ticks(baseDelayMs(StepsOf(id)[i], speedConfig)) :
                       i \in DOMAIN StepsOf(id)} : id \in ScenarioIds}
             \cup {Ticks(speedConfig.upNextDelay)}
  IN SpeedDen * (CHOOSE m \in all : \A x \in all : x <= m)

(***************************************************************************)
(* The state the handlers work on, as a record, and its write-back.        *)
(***************************************************************************)
S ==
  [currentScenario |-> currentScenario, currentStepIndex |-> currentStepIndex,
   isPlaying |-> isPlaying, isPaused |-> isPaused,
   animationTimeout |-> animationTimeout, speed |-> speed,
   currentStepBaseDelay |-> currentStepBaseDelay, hasStarted |-> hasStarted,
   timerAnimationFrame |-> timerAnimationFrame, timerElapsed |-> timerElapsed,
   animateRequests |-> animateRequests, frameRequested |-> frameRequested,
   timerDuration |-> timerDuration, chatMessages |-> chatMessages,
   overlayHidden |-> overlayHidden, fading |-> fading,
   timerActive |-> timerActive, progress |-> progress,
   pauseIconShown |-> pauseIconShown, playPauseDisabled |-> playPauseDisabled,
   timers |-> timers]

Commit(s) ==
  /\ currentScenario' = s.currentScenario
  /\ currentStepIndex' = s.currentStepIndex
  /\ isPlaying' = s.isPlaying
  /\ isPaused' = s.isPaused
  /\ animationTimeout' = s.animationTimeout
  /\ speed' = s.speed
  /\ currentStepBaseDelay' = s.currentStepBaseDelay
  /\ hasStarted' = s.hasStarted
  /\ timerAnimationFrame' = s.timerAnimationFrame
  /\ animateRequests' = s.animateRequests
  /\ frameRequested' = s.frameRequested
  /\ timerElapsed' = s.timerElapsed
  /\ timerDuration' = s.timerDuration
  /\ chatMessages' = s.chatMessages
  /\ overlayHidden' = s.overlayHidden
  /\ fading' = s.fading
  /\ timerActive' = s.timerActive
  /\ progress' = s.progress
  /\ pauseIconShown' = s.pauseIconShown
  /\ playPauseDisabled' = s.playPauseDisabled
  /\ timers' = s.timers

(***************************************************************************)
(* The functions of the script, each from the state before to the state    *)
(* after.                                                                  *)
(***************************************************************************)
getSteps(s) == StepsOf(s.currentScenario)

\* startTimer: the countdown restarts and a frame loop is requested,
\* "timerAnimationFrame = requestAnimationFrame(animate)"; a request made
\* before stays pending.
startTimer(s, duration) ==
  [s EXCEPT !.timerDuration = duration, !.timerElapsed = 0,
            !.timerActive = TRUE, !.timerAnimationFrame = TRUE,
            !.animateRequests = @ + 1, !.frameRequested = TRUE]

\* cancelAnimationFrame(timerAnimationFrame); timerAnimationFrame = null:
\* the request the handle names is removed if it has not run.
cancelTimerFrame(s) ==
  [s EXCEPT !.animateRequests = IF s.frameRequested THEN @ - 1 ELSE @,
            !.frameRequested = FALSE, !.timerAnimationFrame = FALSE]

stopTimer(s) ==
  [(IF s.timerAnimationFrame THEN cancelTimerFrame(s) ELSE s) EXCEPT
     !.timerActive = FALSE]

\* A frame of the page: every pending request runs animate, which asks for
\* the next frame, "if (progress < 1 && isPlaying && !isPaused)
\* timerAnimationFrame = requestAnimationFrame(animate)", and otherwise ends
\* its loop and leaves the handle as it is.  below: progress < 1 at the time
\* of the frame.
animate(s, below) ==
  IF s.animateRequests = 0 THEN s
  ELSE IF below /\ s.isPlaying /\ ~s.isPaused
    THEN [s EXCEPT !.timerAnimationFrame = TRUE, !.frameRequested = TRUE]
    ELSE [s EXCEPT !.animateRequests = 0, !.frameRequested = FALSE]

RECURSIVE Frames(_, _)
Frames(s, fs) ==
  IF fs = << >> THEN s ELSE Frames(animate(s, Head(fs)), Tail(fs))

\* clearTimeout(animationTimeout): the timeout the handle names, if it is
\* still pending, is removed.
clearTimeout(s) ==
  [s EXCEPT !.timers = SelectSeq(s.timers, LAMBDA t : ~t.held)]

\* if (animationTimeout) { clearTimeout(animationTimeout); animationTimeout = null; }
clearAnimationTimeout(s) ==
  IF s.animationTimeout # "null"
    THEN [clearTimeout(s) EXCEPT !.animationTimeout = "null"]
    ELSE s

\* setTimeout(callback, delay) with the handle not kept.
setTimeout(s, kind, delay, next, wasPlaying) ==
  [s EXCEPT !.timers = Append(s.timers, Timeout(kind, delay, FALSE, next, wasPlaying))]

\* animationTimeout = setTimeout(callback, delay): the handle now names the
\* new timeout, and a timeout it named before stays pending, out of reach.
setAnimationTimeout(s, kind, delay, next) ==
  [s EXCEPT !.timers =
              Append([i \in DOMAIN s.timers |-> [s.timers[i] EXCEPT !.held = FALSE]],
                     [Timeout(kind, delay, TRUE, next, FALSE) EXCEPT
                        !.base = IF kind = "reveal" THEN delay * s.speed ELSE 0]),
            !.animationTimeout = "live"]

clearChatMessages(s) == [s EXCEPT !.chatMessages = << >>]

updateButtonStates(s) ==
  LET isComplete == s.currentStepIndex >= Len(getSteps(s))
      isActivelyPlaying == s.isPlaying /\ ~s.isPaused
  IN [s EXCEPT !.pauseIconShown = isActivelyPlaying,
               !.playPauseDisabled = isComplete /\ ~isActivelyPlaying]

updateProgress(s) ==
  [s EXCEPT !.progress = <<s.currentStepIndex, Len(getSteps(s))>>]

showInitialPreview(s) ==
  LET s1 == [s EXCEPT !.chatMessages = Append(@, StepElement(s.currentScenario, 0)),
                      !.currentStepIndex = 0]
      s2 == [s1 EXCEPT !.overlayHidden = FALSE, !.hasStarted = FALSE]
  IN updateButtonStates(updateProgress(s2))

\* switchToScenario(scenarioId) without fade, the only way the script calls it.
switchToScenario(s, scenarioId) ==
  LET s1 == clearAnimationTimeout(stopTimer(s))
      s2 == [s1 EXCEPT !.currentScenario = scenarioId, !.currentStepIndex = 0,
                       !.isPlaying = FALSE, !.isPaused = FALSE,
                       !.hasStarted = FALSE]
  IN showInitialPreview(clearChatMessages(s2))

advanceToNextScenario(s) ==
  LET nextScenarioId == NextScenario(s.currentScenario)
      s1 == [s EXCEPT !.chatMessages = Append(@, UpNextElement(nextScenarioId))]
      upNextDelay == Ticks(OverSpeed(speedConfig.upNextDelay, s.speed))
  IN setAnimationTimeout(startTimer(s1, upNextDelay), "upNext", upNextDelay,
                         nextScenarioId)

\* The end of the steps with "isPlaying = false" and updateButtonStates left
\* out.
scenarioCompleteKeepsPlaying(s) ==
  IF autoAdvance /\ hasMultipleScenarios
    THEN advanceToNextScenario(s)
    ELSE s

\* The end of the steps, in showNextStep.
scenarioComplete(s) ==
  IF autoAdvance /\ hasMultipleScenarios
    THEN advanceToNextScenario(s)
    ELSE updateButtonStates([s EXCEPT !.isPlaying = FALSE])

\* showNextStep with the test for the end of the steps left out: the index
\* moves on past the last step.
showNextStepPastEnd(s0) ==
  LET s == stopTimer(s0)
      steps == getSteps(s)
  IN IF s.currentStepIndex >= Len(steps)
       THEN updateProgress([s EXCEPT !.currentStepIndex = @ + 1])
     ELSE IF s.isPaused THEN s
     ELSE
       LET step == steps[s.currentStepIndex + 1]
           s1 == [s EXCEPT !.chatMessages =
                             Append(@, StepElement(s.currentScenario, s.currentStepIndex)),
                           !.currentStepIndex = @ + 1]
           s2 == updateProgress(s1)
       IN IF s2.currentStepIndex < Len(steps)
            THEN LET delay == Ticks(calculateDelay(step, speedConfig, s2.speed))
                     s3 == [s2 EXCEPT !.currentStepBaseDelay = TimesSpeed(delay, s2.speed)]
                 IN setAnimationTimeout(startTimer(s3, delay), "reveal", delay,
                                        s3.currentScenario)
            ELSE scenarioComplete(s2)

showNextStep(s0) ==
  LET s == stopTimer(s0)
      steps == getSteps(s)
  IN IF s.currentStepIndex >= Len(steps) THEN scenarioComplete(s)
     ELSE IF s.isPaused THEN s
     ELSE
       LET step == steps[s.currentStepIndex + 1]
           s1 == [s EXCEPT !.chatMessages =
                             Append(@, StepElement(s.currentScenario, s.currentStepIndex)),
                           !.currentStepIndex = @ + 1]
           s2 == updateProgress(s1)
       IN IF s2.currentStepIndex < Len(steps)
            THEN LET delay == Ticks(calculateDelay(step, speedConfig, s2.speed))
                     s3 == [s2 EXCEPT !.currentStepBaseDelay = TimesSpeed(delay, s2.speed)]
                 IN setAnimationTimeout(startTimer(s3, delay), "reveal", delay,
                                        s3.currentScenario)
            ELSE scenarioComplete(s2)

\* The first branch of play with "currentStepIndex = 1" left out.
playFromStartMutant(s) ==
  LET s1 == updateButtonStates([s EXCEPT !.overlayHidden = TRUE, !.hasStarted = TRUE,
                                         !.isPlaying = TRUE, !.isPaused = FALSE])
      firstStep == getSteps(s1)[1]
      s2 == IF Len(s1.chatMessages) = 0
              THEN [s1 EXCEPT !.chatMessages = Append(@, StepElement(s1.currentScenario, 0))]
              ELSE s1
      delay == Ticks(calculateDelay(firstStep, speedConfig, s2.speed))
      s3 == [s2 EXCEPT !.currentStepBaseDelay = TimesSpeed(delay, s2.speed)]
  IN setAnimationTimeout(startTimer(s3, delay), "reveal", delay, s3.currentScenario)

\* The first branch of play rendering the first step whether or not it is
\* there already.
playFromStartRendersAgain(s) ==
  LET s1 == updateButtonStates([s EXCEPT !.overlayHidden = TRUE, !.hasStarted = TRUE,
                                         !.isPlaying = TRUE, !.isPaused = FALSE])
      firstStep == getSteps(s1)[1]
      s2 == [s1 EXCEPT !.chatMessages = Append(@, StepElement(s1.currentScenario, 0))]
      delay == Ticks(calculateDelay(firstStep, speedConfig, s2.speed))
      s3 == [s2 EXCEPT !.currentStepBaseDelay = TimesSpeed(delay, s2.speed),
                       !.currentStepIndex = 1]
  IN setAnimationTimeout(startTimer(s3, delay), "reveal", delay, s3.currentScenario)

\* The first branch of play: nothing has started.
playFromStart(s) ==
  LET s1 == updateButtonStates([s EXCEPT !.overlayHidden = TRUE, !.hasStarted = TRUE,
                                         !.isPlaying = TRUE, !.isPaused = FALSE])
      firstStep == getSteps(s1)[1]
      s2 == IF Len(s1.chatMessages) = 0
              THEN [s1 EXCEPT !.chatMessages = Append(@, StepElement(s1.currentScenario, 0))]
              ELSE s1
      delay == Ticks(calculateDelay(firstStep, speedConfig, s2.speed))
      s3 == [s2 EXCEPT !.currentStepBaseDelay = TimesSpeed(delay, s2.speed),
                       !.currentStepIndex = 1]
  IN setAnimationTimeout(startTimer(s3, delay), "reveal", delay, s3.currentScenario)

\* The replay branch with what is rendered left in place.
replayKeepsContent(s) ==
  LET s2 == [s EXCEPT !.chatMessages = Append(@, StepElement(s.currentScenario, 0)),
                      !.currentStepIndex = 1, !.isPlaying = TRUE,
                      !.isPaused = FALSE]
      s3 == updateButtonStates(s2)
      delay == Ticks(calculateDelay(getSteps(s3)[1], speedConfig, s3.speed))
      s4 == [s3 EXCEPT !.currentStepBaseDelay = TimesSpeed(delay, s3.speed)]
  IN setAnimationTimeout(startTimer(s4, delay), "reveal", delay, s4.currentScenario)

\* The branch of play that starts a completed scenario again.
replay(s) ==
  LET s1 == clearChatMessages([s EXCEPT !.currentStepIndex = 0])
      s2 == [s1 EXCEPT !.chatMessages = Append(@, StepElement(s1.currentScenario, 0)),
                       !.currentStepIndex = 1, !.isPlaying = TRUE,
                       !.isPaused = FALSE]
      s3 == updateButtonStates(s2)
      delay == Ticks(calculateDelay(getSteps(s3)[1], speedConfig, s3.speed))
      s4 == [s3 EXCEPT !.currentStepBaseDelay = TimesSpeed(delay, s3.speed)]
  IN setAnimationTimeout(startTimer(s4, delay), "reveal", delay, s4.currentScenario)

play(s) ==
  IF ~s.hasStarted THEN playFromStart(s)
  ELSE IF s.isPaused
    THEN showNextStep(updateButtonStates([s EXCEPT !.isPaused = FALSE]))
  ELSE IF s.isPlaying THEN s
  ELSE IF s.currentStepIndex >= Len(getSteps(s)) THEN replay(s)
  ELSE showNextStep(updateButtonStates([s EXCEPT !.isPlaying = TRUE,
                                                 !.isPaused = FALSE]))

pause(s) ==
  clearAnimationTimeout(stopTimer(updateButtonStates([s EXCEPT !.isPaused = TRUE])))

reset(s) == switchToScenario(s, s.currentScenario)

showAllInstantly(s) ==
  LET steps == getSteps(s)
      s1 == [clearChatMessages(s) EXCEPT !.overlayHidden = TRUE, !.hasStarted = TRUE]
      s2 == [s1 EXCEPT !.chatMessages =
                         [i \in 1..Len(steps) |-> StepElement(s.currentScenario, i - 1)],
                       !.currentStepIndex = Len(steps), !.isPlaying = FALSE]
  IN updateButtonStates(updateProgress(s2))

\* The listeners of the play overlay (click, and Enter or space).
overlayActivate(s) ==
  IF prefersReducedMotion THEN showAllInstantly(s) ELSE play(s)

togglePlayPause(s) ==
  IF s.isPlaying /\ ~s.isPaused THEN pause(s) ELSE play(s)

\* switchTab without its first line, the return when the tab is the current one.
switchTabMutant(s, scenarioId) ==
  LET wasPlaying == s.isPlaying /\ ~s.isPaused
      s1 == stopTimer(clearAnimationTimeout(s))
  IN setTimeout([s1 EXCEPT !.fading = TRUE], "tabFade", TabFadeMs * TicksPerMs,
                scenarioId, wasPlaying)

\* switchTab, up to the timeout that ends the fade.
switchTab(s, scenarioId) ==
  IF scenarioId = s.currentScenario THEN s
  ELSE LET wasPlaying == s.isPlaying /\ ~s.isPaused
           s1 == stopTimer(clearAnimationTimeout(s))
       IN setTimeout([s1 EXCEPT !.fading = TRUE], "tabFade", TabFadeMs * TicksPerMs,
                     scenarioId, wasPlaying)

\* The callback of switchTab's timeout.
tabFadeDone(s, scenarioId, wasPlaying) ==
  LET s1 == [s EXCEPT !.currentScenario = scenarioId, !.currentStepIndex = 0,
                      !.isPlaying = FALSE, !.isPaused = FALSE,
                      !.hasStarted = FALSE]
      s2 == [clearChatMessages(s1) EXCEPT !.overlayHidden = TRUE, !.fading = FALSE]
  IN IF prefersReducedMotion THEN showAllInstantly(s2)
     ELSE IF wasPlaying THEN play(showInitialPreview(s2))
     ELSE showInitialPreview(s2)

\* The callback of the Up Next timeout: fade, then switch.
upNextDone(s, nextScenarioId) ==
  setTimeout([stopTimer(s) EXCEPT !.fading = TRUE], "advanceFade",
             AdvanceFadeMs * TicksPerMs, nextScenarioId, FALSE)

\* The callback of the fade after Up Next, going through the static preview
\* as switchToScenario does, in place of play.
advanceFadeDoneMutant(s, nextScenarioId) ==
  LET s1 == [s EXCEPT !.currentScenario = nextScenarioId, !.currentStepIndex = 0,
                      !.isPlaying = FALSE, !.isPaused = FALSE,
                      !.hasStarted = FALSE, !.fading = FALSE]
  IN showInitialPreview(clearChatMessages(s1))

\* The callback of the fade after Up Next.
advanceFadeDone(s, nextScenarioId) ==
  LET s1 == [s EXCEPT !.currentScenario = nextScenarioId, !.currentStepIndex = 0,
                      !.isPlaying = FALSE, !.isPaused = FALSE,
                      !.hasStarted = FALSE]
      s2 == [clearChatMessages(s1) EXCEPT !.overlayHidden = TRUE, !.fading = FALSE]
  IN play(s2)

\* The change listener of the speed select.
Reschedules(s) ==
  /\ s.isPlaying /\ ~s.isPaused
  /\ s.animationTimeout # "null"
  /\ s.currentStepBaseDelay > 0
  /\ s.currentStepBaseDelay - TimesSpeed(s.timerElapsed, s.speed) > 0

DividedBySpeed(ticks, spd) == (ticks * SpeedDen) \div spd

\* The speed listener with the whole delay of the step set again at the new
\* speed, the time that has passed not taken off.
speedChangeMutant(s, value) ==
  LET s1 == [s EXCEPT !.speed = value]
  IN IF Reschedules(s)
       THEN LET s2 == clearTimeout(s1)
                duration == DividedBySpeed(s.currentStepBaseDelay, value)
            IN setAnimationTimeout(startTimer(s2, duration), "reveal", duration,
                                   s2.currentScenario)
       ELSE s1

\* The speed listener adjusting the countdown to the new speed whether or not
\* a reveal is rescheduled.
speedChangeRescalesAlways(s, value) ==
  LET oldSpeed == s.speed
      s1 == [s EXCEPT !.speed = value,
                      !.timerDuration = DividedBySpeed(s.currentStepBaseDelay, value)]
      elapsedBase == TimesSpeed(s.timerElapsed, oldSpeed)
      remainingBase == s.currentStepBaseDelay - elapsedBase
  IN IF Reschedules(s)
       THEN LET s2 == clearTimeout(s1)
                s3 == [s2 EXCEPT !.timerElapsed = DividedBySpeed(elapsedBase, value)]
            IN setAnimationTimeout(s3, "reveal", DividedBySpeed(remainingBase, value),
                                   s3.currentScenario)
       ELSE s1

\* The speed listener rescheduling the reveal with timerDuration and
\* timerStartTime left as they were.
speedChangeKeepsCountdown(s, value) ==
  LET oldSpeed == s.speed
      s1 == [s EXCEPT !.speed = value]
      elapsedBase == TimesSpeed(s.timerElapsed, oldSpeed)
      remainingBase == s.currentStepBaseDelay - elapsedBase
  IN IF Reschedules(s)
       THEN setAnimationTimeout(clearTimeout(s1), "reveal",
                                DividedBySpeed(remainingBase, value),
                                s1.currentScenario)
       ELSE s1

\* The speed listener with the timeout cleared and "animationTimeout =
\* setTimeout(showNextStep, remainingTime)" left out.
speedChangeDropsReveal(s, value) ==
  LET oldSpeed == s.speed
      s1 == [s EXCEPT !.speed = value]
      elapsedBase == TimesSpeed(s.timerElapsed, oldSpeed)
  IN IF Reschedules(s)
       THEN [clearTimeout(s1) EXCEPT
               !.timerDuration = DividedBySpeed(s.currentStepBaseDelay, value),
               !.timerElapsed = DividedBySpeed(elapsedBase, value)]
       ELSE s1

\* The speed listener taking the time passed as content time at the new
\* speed, "elapsed * speed" in place of "elapsed * oldSpeed".
speedChangeAtNewSpeed(s, value) ==
  LET s1 == [s EXCEPT !.speed = value]
      elapsedBase == TimesSpeed(s.timerElapsed, value)
      remainingBase == s.currentStepBaseDelay - elapsedBase
  IN IF Reschedules(s) /\ remainingBase > 0
       THEN LET s2 == clearTimeout(s1)
                s3 == [s2 EXCEPT !.timerDuration =
                                   DividedBySpeed(s.currentStepBaseDelay, value),
                                 !.timerElapsed = DividedBySpeed(elapsedBase, value)]
            IN setAnimationTimeout(s3, "reveal", DividedBySpeed(remainingBase, value),
                                   s3.currentScenario)
       ELSE s1

speedChange(s, value) ==
  LET oldSpeed == s.speed
      s1 == [s EXCEPT !.speed = value]
      elapsed == s.timerElapsed
      elapsedBase == TimesSpeed(elapsed, oldSpeed)
      remainingBase == s.currentStepBaseDelay - elapsedBase
  IN IF Reschedules(s)
       THEN LET s2 == clearTimeout(s1)
                s3 == [s2 EXCEPT !.timerDuration =
                                   DividedBySpeed(s.currentStepBaseDelay, value),
                                 !.timerElapsed = DividedBySpeed(elapsedBase, value)]
            IN setAnimationTimeout(s3, "reveal", DividedBySpeed(remainingBase, value),
                                   s3.currentScenario)
       ELSE s1

\* The instants at which the handler's products and quotients are whole ticks.
SpeedChangeExact(s, value) ==
  Reschedules(s) =>
    /\ (s.timerElapsed * s.speed) % SpeedDen = 0
    /\ (s.currentStepBaseDelay * SpeedDen) % value = 0
    /\ (TimesSpeed(s.timerElapsed, s.speed) * SpeedDen) % value = 0

\* The visibilitychange listener cancelling the reveal with the frame loop.
visibilityChangeCancels(s, hidden) ==
  IF hidden /\ s.timerAnimationFrame
    THEN clearAnimationTimeout(cancelTimerFrame(s))
    ELSE s

\* The visibilitychange listener.
visibilityChange(s, hidden) ==
  IF hidden /\ s.timerAnimationFrame
    THEN cancelTimerFrame(s)
    ELSE s

(***************************************************************************)
(* The player: the state after the script has run, and one action per      *)
(* listener, per timeout callback, and for the passing of time.            *)
(***************************************************************************)
\* The script's variables as declared, before its "Initialize" lines.
Declared ==
  [currentScenario |-> scenarioOrder[1], currentStepIndex |-> 0,
   isPlaying |-> FALSE, isPaused |-> FALSE, animationTimeout |-> "null",
   speed |-> InitialSpeed, currentStepBaseDelay |-> 0, hasStarted |-> FALSE,
   timerAnimationFrame |-> FALSE, timerElapsed |-> ElapsedCap,
   animateRequests |-> 0, frameRequested |-> FALSE,
   timerDuration |-> 0, chatMessages |-> << >>, overlayHidden |-> FALSE,
   fading |-> FALSE, timerActive |-> FALSE, progress |-> <<0, 0>>,
   pauseIconShown |-> FALSE, playPauseDisabled |-> FALSE, timers |-> << >>]

\* showInitialPreview(); if (prefersReducedMotion) showAllInstantly();
Loaded ==
  IF prefersReducedMotion THEN showAllInstantly(showInitialPreview(Declared))
  ELSE showInitialPreview(Declared)

Init ==
  /\ \E demo \in Demos : scenarioOrder = demo.order /\ autoAdvance = demo.autoAdvance
  /\ prefersReducedMotion \in BOOLEAN
  /\ rawSpeed = DemoSpeed
  /\ speedConfig = GeneratedSpeedConfig(rawSpeed)
  /\ pc = "running"
  /\ stepIn = StepsOf("A")[1]
  /\ delayOut = Whole(0)
  /\ rawScenarios = << >>
  /\ parsedScenarios = << >>
  /\ parseError = ""
  /\ events = 0
  /\ run = "idle"
  /\ quiet = 0
  /\ last = <<"load", "">>
  /\ \E loaded \in {Loaded} :
       /\ currentScenario = loaded.currentScenario
       /\ currentStepIndex = loaded.currentStepIndex
       /\ isPlaying = loaded.isPlaying
       /\ isPaused = loaded.isPaused
       /\ animationTimeout = loaded.animationTimeout
       /\ speed = loaded.speed
       /\ currentStepBaseDelay = loaded.currentStepBaseDelay
       /\ hasStarted = loaded.hasStarted
       /\ timerAnimationFrame = loaded.timerAnimationFrame
       /\ animateRequests = loaded.animateRequests
       /\ frameRequested = loaded.frameRequested
       /\ timerElapsed = loaded.timerElapsed
       /\ timerDuration = loaded.timerDuration
       /\ chatMessages = loaded.chatMessages
       /\ overlayHidden = loaded.overlayHidden
       /\ fading = loaded.fading
       /\ timerActive = loaded.timerActive
       /\ progress = loaded.progress
       /\ pauseIconShown = loaded.pauseIconShown
       /\ playPauseDisabled = loaded.playPauseDisabled
       /\ timers = loaded.timers

\* play() on a scenario that has not started keeps a chat that is not empty
\* and sets currentStepIndex to 1: the index is then at or before a step of
\* the scenario that is rendered already.
RenderedAhead ==
  /\ hasStarted
  /\ \E j \in DOMAIN chatMessages :
       /\ chatMessages[j].k = "step"
       /\ chatMessages[j].s = currentScenario
       /\ chatMessages[j].i >= currentStepIndex

\* The user events of a run: one more with reduced motion in a demo of one
\* scenario, where the page loads with every step shown and a reset has to
\* come before anything can play; two more once the index is behind the
\* rendered steps, which takes three events and shows in what the next two
\* (a pause and a resume) render.
EventBudget ==
  IF RenderedAhead THEN MaxEvents + 2
  ELSE IF prefersReducedMotion /\ ~hasMultipleScenarios THEN MaxEvents + 1
  ELSE MaxEvents

\* History: a reveal timeout that is pending when pause, reset or a switch to
\* another tab returns was set before that call.
MarkStale(s) ==
  [s EXCEPT !.timers =
     [i \in DOMAIN s.timers |->
        IF s.timers[i].kind = "reveal"
          THEN [s.timers[i] EXCEPT !.stale = TRUE] ELSE s.timers[i]]]

\* A user event: the listener runs to its end.
UserEvent(s, starts, listener, arg) ==
  /\ pc = "running"
  /\ events < EventBudget
  /\ events' = events + 1
  /\ quiet' = 0
  /\ last' = <<listener, arg>>
  /\ run' = IF run = "idle" /\ starts THEN "clean" ELSE "touched"
  /\ Commit(s)
  /\ UNCHANGED <<configVars, pipeVars>>

\* A click on the play overlay, which takes pointer events unless hidden.
OverlayClick ==
  /\ ~overlayHidden
  /\ UserEvent(overlayActivate(S), TRUE, "overlayClick", "")

\* Enter or space on the play overlay, which keeps the focus when hidden.
OverlayKeydown ==
  /\ UserEvent(overlayActivate(S), TRUE, "overlayKeydown", "")

\* A click on the play/pause button, which a disabled button does not take.
PlayPauseClick ==
  /\ ~playPauseDisabled
  /\ UserEvent(IF isPlaying /\ ~isPaused
                 THEN MarkStale(togglePlayPause(S)) ELSE togglePlayPause(S),
               ~(isPlaying /\ ~isPaused),
               "togglePlayPause", IF isPlaying /\ ~isPaused THEN "pause" ELSE "play")

ResetClick ==
  /\ UserEvent(MarkStale(reset(S)), FALSE, "reset", "")

\* A click on a tab, or an arrow key that moves to it; tabs exist when the
\* demo has more than one scenario.
TabActivate(scenarioId) ==
  /\ hasMultipleScenarios
  /\ UserEvent(IF scenarioId = currentScenario
                 THEN switchTab(S, scenarioId)
                 ELSE MarkStale(switchTab(S, scenarioId)),
               FALSE, "switchTab", scenarioId)

\* History: the timeout the speed listener sets goes on with the delay of
\* the reveal timeout it cleared, and is no delay of a step when it cleared
\* none.
CarryOver(old, new) ==
  LET cleared == {i \in DOMAIN old.timers :
                    old.timers[i].held /\ old.timers[i].kind = "reveal"}
      n == Len(new.timers)
  IN IF Reschedules(old) /\ n > 0 /\ new.timers[n].held
       THEN [new EXCEPT !.timers[n] =
               IF cleared # {}
                 THEN LET h == CHOOSE i \in cleared : TRUE
                      IN [@ EXCEPT !.base = old.timers[h].base,
                                   !.consumed = old.timers[h].consumed]
                 ELSE [@ EXCEPT !.base = 0]]
       ELSE new

SpeedSelect(value) ==
  /\ value # speed
  /\ SpeedChangeExact(S, value)
  /\ UserEvent(CarryOver(S, speedChange(S, value)), FALSE, "speedChange",
               IF Reschedules(S) THEN "rescheduled" ELSE "")

\* The document becomes hidden, or visible again.
VisibilityChange(hidden) ==
  UserEvent(visibilityChange(S, hidden), FALSE, "visibilityChange",
            IF hidden THEN "hidden" ELSE "visible")

\* The frames of an interval in which Date.now() - timerStartTime goes from
\* elapsed to elapsed + d, by whether progress < 1 at each: the browser runs
\* frames when it chooses to (none while the page is hidden), those before
\* the countdown is full first.
FramesDuring(elapsed, duration, d) ==
  {fs \in {<< >>, <<TRUE>>, <<FALSE>>, <<TRUE, FALSE>>} :
     /\ (\E i \in DOMAIN fs : fs[i]) => elapsed < duration
     /\ (\E i \in DOMAIN fs : ~fs[i]) => elapsed + d >= duration}

\* Time passes, no further than the next timeout, and the frames of that
\* time run.
Tick(d) ==
  /\ pc = "running"
  /\ d > 0
  /\ \A i \in DOMAIN timers : timers[i].remaining >= d
  /\ \E fs \in FramesDuring(timerElapsed, timerDuration, d) :
       LET s == Frames(S, fs)
       IN /\ timerAnimationFrame' = s.timerAnimationFrame
          /\ animateRequests' = s.animateRequests
          /\ frameRequested' = s.frameRequested
  /\ timers' = [i \in DOMAIN timers |->
                 [timers[i] EXCEPT !.remaining = @ - d,
                                   !.consumed = IF timers[i].base > 0
                                                  THEN @ + d * speed ELSE @]]
  /\ timerElapsed' = Min(ElapsedCap, timerElapsed + d)
  /\ UNCHANGED <<configVars, stateVars, timerDuration,
                 domVars, pipeVars, events, run, quiet, last>>

\* The clock advances up to the next timeout, or by TickMs to an instant at
\* which a user event may come; while no timeout is pending the next event
\* comes at once or after a long time.
Advance ==
  \E d \in IF timers = << >> THEN {ElapsedCap}
           ELSE {timers[i].remaining : i \in DOMAIN timers}
                \cup (IF events < EventBudget THEN {TickMs * TicksPerMs} ELSE {}) :
    Tick(d)

\* The timeout that runs next: due, and set before any other that is due.
Due(i) ==
  /\ pc = "running"
  /\ timers[i].remaining = 0
  /\ \A j \in 1..(i - 1) : timers[j].remaining > 0

\* The state a callback starts in: its timeout is gone, and a handle that
\* named it names nothing that clearTimeout could cancel.
Fired(i) ==
  [S EXCEPT !.timers = SubSeq(timers, 1, i - 1) \o SubSeq(timers, i + 1, Len(timers)),
            !.animationTimeout = IF timers[i].held THEN "stale" ELSE @]

Callback(s, callback, arg) ==
  /\ quiet < MaxQuiet
  /\ quiet' = quiet + 1
  /\ last' = <<callback, arg>>
  /\ Commit(s)
  /\ UNCHANGED <<configVars, pipeVars, events, run>>

FireReveal(i) ==
  /\ Due(i) /\ timers[i].kind = "reveal"
  /\ Callback(showNextStep(Fired(i)), "showNextStep",
              IF timers[i].stale THEN "stale" ELSE "")

FireUpNext(i) ==
  /\ Due(i) /\ timers[i].kind = "upNext"
  /\ Callback(upNextDone(Fired(i), timers[i].next), "upNext", timers[i].next)

FireAdvanceFade(i) ==
  /\ Due(i) /\ timers[i].kind = "advanceFade"
  /\ Callback(advanceFadeDone(Fired(i), timers[i].next), "advanceFade", timers[i].next)

FireTabFade(i) ==
  /\ Due(i) /\ timers[i].kind = "tabFade"
  /\ Callback(tabFadeDone(Fired(i), timers[i].next, timers[i].wasPlaying),
              "tabFade", timers[i].next)

Next ==
  \/ OverlayClick
  \/ OverlayKeydown
  \/ PlayPauseClick
  \/ ResetClick
  \/ \E id \in ScenarioIds : id \in {scenarioOrder[i] : i \in DOMAIN scenarioOrder}
                              /\ TabActivate(id)
  \/ \E v \in Speeds : SpeedSelect(v)
  \/ \E hidden \in BOOLEAN : VisibilityChange(hidden)
  \/ Advance
  \/ \E i \in DOMAIN timers : FireReveal(i)
  \/ \E i \in DOMAIN timers : FireUpNext(i)
  \/ \E i \in DOMAIN timers : FireAdvanceFade(i)
  \/ \E i \in DOMAIN timers : FireTabFade(i)

Spec == Init /\ [][Next]_vars

(***************************************************************************)
(* The configuration pipeline: meta.speed as the YAML gives it is          *)
(* validated by the parser, written into the script by generateJs, and     *)
(* used by calculateDelay.                                                 *)
(***************************************************************************)
\* meta.speed inputs: each field left out, or given a value, whole or with
\* a fraction a double holds exactly.
RawConfigs ==
  [minDelay : {Undefined, Frac(5, 2), Num(2000), Num(9000)},
   maxDelay : {Undefined, Num(1000), Num(4000)},
   msPerWord : {Undefined, Num(1000), Frac(1, 2), NotANumber},
   annotationMultiplier : {Undefined, Frac(5, 4), Frac(1, 2), Num(-1)},
   upNextDelay : {Undefined, Frac(3, 2)}]

\* A code block of one word and the line end a YAML block scalar gives it:
\* validateSteps passes codeBlock on as it is, content and footnote trimmed.
CodeLine == Words(1) \o <<" ">>

\* The steps calculateDelay is given: stepsToJs writes a message with its
\* codeBlock and footnote when it has them (as "user", or as "ai", which
\* calculateDelay treats alike), and an annotation or a transition with its
\* plainText alone.
StepInputs ==
  {Step(type, Words(n), code, note) :
     type \in {"user"}, n \in 1..MaxWords,
     code \in {NoText, Words(MaxWords), CodeLine},
     note \in {NoText, Words(2)}}
  \cup {Step(type, Words(n), NoText, NoText) :
          type \in {"annotation", "transition"}, n \in 1..MaxWords}

\* meta.speed left out: every field takes its default.
NoSpeed ==
  [minDelay |-> Undefined, maxDelay |-> Undefined, msPerWord |-> Undefined,
   annotationMultiplier |-> Undefined, upNextDelay |-> Undefined]

DelayInit ==
  /\ rawSpeed \in RawConfigs
  /\ pc = "raw"
  /\ speedConfig = GeneratedSpeedConfig(NoSpeed)
  /\ stepIn = StepsOf("A")[1]
  /\ delayOut = Whole(0)
  /\ rawScenarios = << >>
  /\ parsedScenarios = << >>
  /\ parseError = ""
  /\ scenarioOrder = <<"A">>
  /\ autoAdvance = FALSE
  /\ prefersReducedMotion = FALSE
  /\ events = 0
  /\ run = "idle"
  /\ quiet = 0
  /\ last = <<"load", "">>
  /\ \E declared \in {Declared} :
       /\ currentScenario = declared.currentScenario
       /\ currentStepIndex = declared.currentStepIndex
       /\ isPlaying = declared.isPlaying
       /\ isPaused = declared.isPaused
       /\ animationTimeout = declared.animationTimeout
       /\ speed = declared.speed
       /\ currentStepBaseDelay = declared.currentStepBaseDelay
       /\ hasStarted = declared.hasStarted
       /\ timerAnimationFrame = declared.timerAnimationFrame
       /\ animateRequests = declared.animateRequests
       /\ frameRequested = declared.frameRequested
       /\ timerElapsed = declared.timerElapsed
       /\ timerDuration = declared.timerDuration
       /\ chatMessages = declared.chatMessages
       /\ overlayHidden = declared.overlayHidden
       /\ fading = declared.fading
       /\ timerActive = declared.timerActive
       /\ progress = declared.progress
       /\ pauseIconShown = declared.pauseIconShown
       /\ playPauseDisabled = declared.playPauseDisabled
       /\ timers = declared.timers

\* The parser: a ParseError ends the run, otherwise the demo goes on.
ValidateSpeed ==
  /\ pc = "raw"
  /\ pc' = IF validateSpeedConfig(rawSpeed) = "error" THEN "rejected" ELSE "validated"
  /\ UNCHANGED <<configVars, stateVars, timerVars, domVars, timers,
                 rawSpeed, stepIn, delayOut, scenarioVars, events, run, quiet,
                 last>>

\* The generator writes speedConfig, defaults filled in.
GenerateJs ==
  /\ pc = "validated"
  /\ speedConfig' = GeneratedSpeedConfig(rawSpeed)
  /\ pc' = "generated"
  /\ UNCHANGED <<scenarioOrder, autoAdvance, prefersReducedMotion, stateVars,
                 timerVars, domVars, timers, rawSpeed, stepIn, delayOut,
                 scenarioVars, events, run, quiet, last>>

\* The script computes the delay of a step at a speed.
CalculateDelay ==
  /\ pc \in {"generated", "calculated"}
  /\ \E step \in StepInputs, spd \in Speeds :
       /\ stepIn' = step
       /\ speed' = spd
       /\ delayOut' = calculateDelay(step, speedConfig, spd)
  /\ pc' = "calculated"
  /\ UNCHANGED <<configVars, currentScenario, currentStepIndex, isPlaying,
                 isPaused, animationTimeout, currentStepBaseDelay, hasStarted,
                 timerVars, domVars, timers, rawSpeed, scenarioVars, events, run,
                 quiet, last>>

DelayNext == ValidateSpeed \/ GenerateJs \/ CalculateDelay

DelaySpec == DelayInit /\ [][DelayNext]_vars

(***************************************************************************)
(* The parser on the scenarios of a demo: validateScenarios gives the      *)
(* scenarios of the Demo or throws a ParseError.                           *)
(***************************************************************************)
\* str.trim(): white space at both ends removed.
Trim(str) ==
  LET solid == {i \in 1..Len(str) : str[i] # " "}
  IN IF solid = {} THEN << >>
     ELSE SubSeq(str, CHOOSE i \in solid : \A j \in solid : i <= j,
                      CHOOSE i \in solid : \A j \in solid : j <= i)

\* The ids a YAML file may give a scenario: strings, with white space around
\* them or nothing else, and a value that is not a string.
RawIds ==
  {[t |-> "string", s |-> str] :
     str \in {<<"a">>, <<"a", " ">>, <<" ", "a">>, <<"b">>, <<" ">>, << >>}}
  \cup {[t |-> "undefined", s |-> << >>]}

\* A scenario as given: its id, and whether its title, participants and
\* steps pass their validation.
RawScenarios == [id : RawIds, rest : BOOLEAN]

ScenarioLists ==
  UNION {[1..n -> RawScenarios] : n \in 0..MaxScenarios}

IdsOf(list) == {list[i] : i \in DOMAIN list}

\* validateFrom with the test "ids.has(id)" left out.
RECURSIVE validateFromKeepsDuplicates(_, _, _)
validateFromKeepsDuplicates(raw, i, acc) ==
  IF i > Len(raw) THEN [error |-> "", scenarios |-> acc]
  ELSE IF raw[i].id.t # "string" \/ Trim(raw[i].id.s) = << >>
    THEN [error |-> "id is required", scenarios |-> << >>]
  ELSE IF ~raw[i].rest
    THEN [error |-> "invalid scenario", scenarios |-> << >>]
  ELSE validateFromKeepsDuplicates(raw, i + 1, Append(acc, Trim(raw[i].id.s)))

\* raw.map(...) of validateScenarios from scenario i on, the ids of the
\* scenarios before it in acc: the first ParseError thrown ends it.
RECURSIVE validateFrom(_, _, _)
validateFrom(raw, i, acc) ==
  IF i > Len(raw) THEN [error |-> "", scenarios |-> acc]
  ELSE IF raw[i].id.t # "string" \/ Trim(raw[i].id.s) = << >>
    THEN [error |-> "id is required", scenarios |-> << >>]
  ELSE IF Trim(raw[i].id.s) \in IdsOf(acc)
    THEN [error |-> "duplicate scenario id", scenarios |-> << >>]
  ELSE IF ~raw[i].rest
    THEN [error |-> "invalid scenario", scenarios |-> << >>]
  ELSE validateFrom(raw, i + 1, Append(acc, Trim(raw[i].id.s)))

validateScenarios(raw) ==
  IF Len(raw) = 0
    THEN [error |-> "at least one scenario is required", scenarios |-> << >>]
    ELSE validateFrom(raw, 1, << >>)

ScenarioInit ==
  /\ rawScenarios \in ScenarioLists
  /\ parsedScenarios = << >>
  /\ parseError = ""
  /\ pc = "raw"
  /\ rawSpeed = NoSpeed
  /\ speedConfig = GeneratedSpeedConfig(NoSpeed)
  /\ stepIn = StepsOf("A")[1]
  /\ delayOut = Whole(0)
  /\ scenarioOrder = <<"A">>
  /\ autoAdvance = FALSE
  /\ prefersReducedMotion = FALSE
  /\ events = 0
  /\ run = "idle"
  /\ quiet = 0
  /\ last = <<"load", "">>
  /\ \E declared \in {Declared} :
       /\ currentScenario = declared.currentScenario
       /\ currentStepIndex = declared.currentStepIndex
       /\ isPlaying = declared.isPlaying
       /\ isPaused = declared.isPaused
       /\ animationTimeout = declared.animationTimeout
       /\ speed = declared.speed
       /\ currentStepBaseDelay = declared.currentStepBaseDelay
       /\ hasStarted = declared.hasStarted
       /\ timerAnimationFrame = declared.timerAnimationFrame
       /\ animateRequests = declared.animateRequests
       /\ frameRequested = declared.frameRequested
       /\ timerElapsed = declared.timerElapsed
       /\ timerDuration = declared.timerDuration
       /\ chatMessages = declared.chatMessages
       /\ overlayHidden = declared.overlayHidden
       /\ fading = declared.fading
       /\ timerActive = declared.timerActive
       /\ progress = declared.progress
       /\ pauseIconShown = declared.pauseIconShown
       /\ playPauseDisabled = declared.playPauseDisabled
       /\ timers = declared.timers

\* parseDemo on the scenarios: the Demo, or the ParseError and no Demo.
ParseScenarios ==
  /\ pc = "raw"
  /\ LET result == validateScenarios(rawScenarios)
     IN /\ parseError' = result.error
        /\ parsedScenarios' = result.scenarios
        /\ pc' = IF result.error = "" THEN "parsed" ELSE "rejected"
  /\ UNCHANGED <<configVars, stateVars, timerVars, domVars, timers, rawSpeed,
                 stepIn, delayOut, rawScenarios, events, run, quiet, last>>

ScenarioNext == ParseScenarios

ScenarioSpec == ScenarioInit /\ [][ScenarioNext]_vars

(***************************************************************************)
(* C7.  The configuration the script runs with.                            *)
(***************************************************************************)
\* C7: every speed configuration validateSpeedConfig accepts gives, once the
\* defaults are filled in for the fields left out, a speedConfig with
\* minDelay <= maxDelay.
C7_MinDelayLeMaxDelay ==
  pc \in {"generated", "calculated"} =>
    LessEq(speedConfig.minDelay, speedConfig.maxDelay)

(***************************************************************************)
(* C6.  The bounds of the delay.                                           *)
(***************************************************************************)
\* calculateDelay(step) * m, the content time of the delay computed, in
\* milliseconds.
ContentDelay == Times(delayOut, [n |-> speed, d |-> SpeedDen])

\* C6: for every accepted speed configuration, every step and every speed m,
\* calculateDelay(step) * m lies in [minDelay, maxDelay], and for an
\* annotation in [minDelay, maxDelay * annotationMultiplier].
C6_DelayWithinBounds ==
  pc = "calculated" =>
    /\ LessEq(speedConfig.minDelay, ContentDelay)
    /\ IF stepIn.type = "annotation"
         THEN LessEq(ContentDelay,
                     Times(speedConfig.maxDelay, speedConfig.annotationMultiplier))
         ELSE LessEq(ContentDelay, speedConfig.maxDelay)

(***************************************************************************)
(* The player: vocabulary of the properties.                               *)
(***************************************************************************)
\* The pending timeouts that will call showNextStep or start the Up Next
\* switch.
RevealTimers ==
  {i \in DOMAIN timers : timers[i].kind \in {"reveal", "upNext"}}

\* The pending showNextStep timeout that animationTimeout names.
HeldReveal ==
  {i \in DOMAIN timers : timers[i].held /\ timers[i].kind = "reveal"}

\* One overlay click, overlay key or play click so far, and nothing else:
\* playback from Unstarted without interruption, animations on.
Uninterrupted == run = "clean" /\ ~prefersReducedMotion

\* Steps 0 .. n-1 of a scenario, as rendered.
Rendered(id, n) == [i \in 1..n |-> StepElement(id, i - 1)]

(***************************************************************************)
(* C1.  One reveal timer.                                                  *)
(***************************************************************************)
\* C1: in every reachable state at most one reveal timer (a pending timeout
\* that will call showNextStep or perform the Up Next switch) is outstanding.
C1_AtMostOneRevealTimer == Cardinality(RevealTimers) <= 1

(***************************************************************************)
(* C2.  No reveal after pause, reset or a tab switch.                      *)
(***************************************************************************)
\* C2: a showNextStep timeout that was scheduled before a call of pause, reset
\* or switchTab to another tab appends no step and does not advance
\* currentStepIndex when it runs.
C2_NoRevealAfterCancel ==
  [][\A i \in DOMAIN timers :
       (FireReveal(i) /\ timers[i].stale) =>
         /\ chatMessages' = chatMessages
         /\ currentStepIndex' = currentStepIndex]_vars

(***************************************************************************)
(* C3.  Monotonic reveal.                                                  *)
(***************************************************************************)
\* C3: while a scenario with N steps plays from Unstarted without
\* interruption, what is rendered is exactly steps 0 .. currentStepIndex-1 in
\* index order, each once, with the Up Next card after step N-1 at most.
C3_MonotonicReveal ==
  Uninterrupted =>
    /\ currentStepIndex \in 1..Len(StepsOf(currentScenario))
    /\ \/ chatMessages = Rendered(currentScenario, currentStepIndex)
       \/ /\ currentStepIndex = Len(StepsOf(currentScenario))
          /\ \E id \in ScenarioIds :
               chatMessages = Append(Rendered(currentScenario, currentStepIndex),
                                     UpNextElement(id))

\* The three steps of scenario C are rendered, reached by playing A, B and C
\* without interruption.
C3_Witness ==
  /\ Uninterrupted
  /\ currentScenario = "C"
  /\ currentStepIndex = 3
  /\ last = <<"showNextStep", "">>
  /\ Len(chatMessages) >= 3

(***************************************************************************)
(* C4.  Reduced motion.                                                    *)
(***************************************************************************)
\* C4: with the reduced-motion preference active the controller never enters
\* Playing and no reveal timer is ever scheduled.
C4_ReducedMotionNeverPlays ==
  prefersReducedMotion => (~isPlaying /\ RevealTimers = {})

(***************************************************************************)
(* C5.  Speed-change continuity.                                           *)
(***************************************************************************)
\* C5: when the speed changes from m1 to m2 while a step with base delay D is
\* playing and wall-clock time t < D/m1 of its delay has passed, the pending
\* reveal is replaced by one that is due (D - t*m1)/m2 later, so that the
\* reveal comes t + (D - t*m1)/m2 after the start of the delay.  (speed is
\* m * SpeedDen, so the equation is multiplied through by m2 * SpeedDen.)
C5_SpeedChangeContinuity ==
  [][\A v \in Speeds :
       (/\ SpeedSelect(v)
        /\ isPlaying /\ ~isPaused
        /\ HeldReveal # {}
        /\ timerElapsed * speed < currentStepBaseDelay * SpeedDen)
       => /\ Len(timers') = Len(timers)
          /\ Cardinality(HeldReveal') = 1
          /\ \A j \in HeldReveal' :
               timers'[j].remaining * v
                 = currentStepBaseDelay * SpeedDen - timerElapsed * speed]_vars

\* A play and then a speed change to 4x that rescheduled the reveal: the
\* step is under way at the new speed, with part of its delay behind it.
C5_Witness ==
  /\ last = <<"speedChange", "rescheduled">>
  /\ speed = 8
  /\ isPlaying /\ ~isPaused
  /\ timerElapsed > 0
  /\ \E i \in HeldReveal : timers[i].remaining > 0

(***************************************************************************)
(* C8.  A tab switch to the current scenario.                              *)
(***************************************************************************)
\* C8: switchTab with the id of the current scenario changes no variable of
\* the controller (position, flags, speed, timeout handle), of the timer
\* animation or of the document, leaves the pending timeouts as they are,
\* and starts no fade.
C8_IdempotentTabSwitch ==
  [][\A id \in ScenarioIds :
       (TabActivate(id) /\ id = currentScenario) =>
         /\ UNCHANGED <<stateVars, timerVars, domVars, timers>>
         /\ fading' = fading]_vars

\* The tab of the scenario that is playing was activated while its reveal
\* was pending.
C8_Witness ==
  /\ last = <<"switchTab", currentScenario>>
  /\ ~fading
  /\ isPlaying /\ ~isPaused
  /\ HeldReveal # {}

(***************************************************************************)
(* C9.  The Up Next flow.                                                  *)
(***************************************************************************)
\* The Up Next cards rendered.
UpNextCards == {i \in DOMAIN chatMessages : chatMessages[i].k = "scenario-ending"}

\* A showNextStep timeout that ends the scenario, with autoAdvance and more
\* than one scenario: one Up Next card for the next scenario is appended and
\* a timeout of upNextDelay / speed is set for the switch to it.
EndShowsUpNext(i) ==
  (/\ FireReveal(i)
   /\ autoAdvance /\ hasMultipleScenarios
   /\ currentStepIndex' = Len(StepsOf(currentScenario)))
  => /\ chatMessages'[Len(chatMessages')]
          = UpNextElement(scenarioOrder[(IndexOf(currentScenario) % Len(scenarioOrder)) + 1])
     /\ Cardinality(UpNextCards') = Cardinality(UpNextCards) + 1
     /\ \E j \in DOMAIN timers' :
          /\ timers'[j].kind = "upNext" /\ timers'[j].held
          /\ timers'[j].next
               = scenarioOrder[(IndexOf(currentScenario) % Len(scenarioOrder)) + 1]
          /\ timers'[j].remaining * speed
               = Ticks(speedConfig.upNextDelay) * SpeedDen
     /\ overlayHidden' = overlayHidden

\* The Up Next timeout starts the fade of 300 ms and renders nothing.
UpNextStartsFade(i) ==
  FireUpNext(i)
  => /\ fading'
     /\ \E j \in DOMAIN timers' :
          /\ timers'[j].kind = "advanceFade"
          /\ timers'[j].next = timers[i].next
          /\ timers'[j].remaining = AdvanceFadeMs * TicksPerMs
     /\ UNCHANGED <<chatMessages, overlayHidden, currentScenario, isPlaying>>

\* After the fade the controller is on the next scenario, its first step
\* rendered, playing, started, the overlay hidden, a reveal scheduled.
FadeEndsPlayingNext(i) ==
  FireAdvanceFade(i)
  => /\ currentScenario' = timers[i].next
     /\ chatMessages' = <<StepElement(timers[i].next, 0)>>
     /\ currentStepIndex' = 1
     /\ isPlaying' /\ ~isPaused' /\ hasStarted' /\ overlayHidden' /\ ~fading'
     /\ \E j \in DOMAIN timers' :
          /\ timers'[j].kind = "reveal" /\ timers'[j].held
          /\ timers'[j].remaining > 0

\* C9: with autoAdvance and more than one scenario, revealing the last step
\* shows one Up Next card for upNextDelay / speed, then after the fade the
\* controller is on the next scenario with its first step rendered, playing,
\* started, a reveal scheduled; and from the play on the overlay is never
\* shown and never more than one Up Next card is rendered.
C9_UpNextFlow ==
  /\ [](Uninterrupted => (overlayHidden /\ Cardinality(UpNextCards) <= 1))
  /\ [][\A i \in DOMAIN timers :
          EndShowsUpNext(i) /\ UpNextStartsFade(i) /\ FadeEndsPlayingNext(i)]_vars

\* Scenario A was played to its end without interruption, and the fade after
\* its Up Next card has ended on B.
C9_Witness ==
  /\ Uninterrupted
  /\ autoAdvance /\ hasMultipleScenarios
  /\ last = <<"advanceFade", "B">>
  /\ currentScenario = "B"
  /\ isPlaying

(***************************************************************************)
(* C10.  The scenario auto-advance switches to.                            *)
(***************************************************************************)
\* C10: auto-advance always switches to the scenario that follows the
\* current one in declared order, wrapping from the last to the first.
C10_AdvanceToNextInOrder ==
  [][\A i \in DOMAIN timers :
       FireAdvanceFade(i) => currentScenario' = NextScenario(currentScenario)]_vars

(***************************************************************************)
(* C11.  A tab switch to another scenario.                                 *)
(***************************************************************************)
\* switchTab to another scenario, animations on: no reveal timer is left
\* pending, nothing is rendered (no Up Next card), and the fade starts.
SwitchCancelsReveal(id) ==
  (TabActivate(id) /\ id # currentScenario /\ ~prefersReducedMotion)
  => /\ RevealTimers' = {}
     /\ chatMessages' = chatMessages
     /\ fading'

\* The end of the fade: the controller is on the requested scenario at its
\* start, Playing with one reveal timer if playback was active when the
\* switch was requested, and otherwise Unstarted with the preview of step 0.
SwitchEndsAtStart(i) ==
  (FireTabFade(i) /\ ~prefersReducedMotion)
  => /\ currentScenario' = timers[i].next
     /\ chatMessages' = <<StepElement(timers[i].next, 0)>>
     /\ ~isPaused'
     /\ IF timers[i].wasPlaying
          THEN /\ isPlaying' /\ hasStarted' /\ overlayHidden'
               /\ currentStepIndex' = 1
               /\ Cardinality(RevealTimers') = 1
          ELSE /\ ~isPlaying' /\ ~hasStarted' /\ ~overlayHidden'
               /\ currentStepIndex' = 0

\* C11: a tab switch to a different scenario (reduced motion off) cancels the
\* pending timer, shows no Up Next card, and after the fade leaves the
\* controller on the requested scenario at its start, Playing with one reveal
\* timer if and only if playback was active at the request, and otherwise
\* Unstarted with the static preview of step 0.
C11_TabSwitchResult ==
  [][/\ \A id \in ScenarioIds : SwitchCancelsReveal(id)
     /\ \A i \in DOMAIN timers : SwitchEndsAtStart(i)]_vars

(***************************************************************************)
(* The states of the controller, as the specification names them.          *)
(***************************************************************************)
Playing == isPlaying /\ ~isPaused
Unstarted == ~hasStarted /\ ~isPlaying /\ ~isPaused /\ currentStepIndex = 0
PausedMidStream ==
  hasStarted /\ isPaused /\ currentStepIndex < Len(StepsOf(currentScenario))
SceneComplete ==
  /\ hasStarted /\ ~isPlaying /\ ~isPaused
  /\ currentStepIndex = Len(StepsOf(currentScenario))

\* play() is called: by the play/pause button while not playing, or by the
\* overlay listeners with animations on.
PlayCalled ==
  \/ PlayPauseClick /\ ~Playing
  \/ (OverlayClick \/ OverlayKeydown) /\ ~prefersReducedMotion

(***************************************************************************)
(* C12.  Pause and resume.                                                 *)
(***************************************************************************)
\* pause() while Playing keeps the position and what is rendered, and leaves
\* the controller paused with no timeout under its handle.
PauseKeepsPosition ==
  (PlayPauseClick /\ Playing)
  => /\ UNCHANGED <<currentStepIndex, chatMessages, currentScenario>>
     /\ isPaused'
     /\ HeldReveal' = {}
     /\ ~timerAnimationFrame'

\* play() from PausedMidStream reveals the step at currentStepIndex at once,
\* a step that was not rendered before, and no other step (the Up Next card
\* follows it when it is the last).
ResumeRevealsNext ==
  (PlayCalled /\ PausedMidStream)
  => /\ Len(chatMessages') > Len(chatMessages)
     /\ SubSeq(chatMessages', 1, Len(chatMessages) + 1)
          = Append(chatMessages, StepElement(currentScenario, currentStepIndex))
     /\ \A j \in (Len(chatMessages) + 2)..Len(chatMessages') :
          chatMessages'[j].k = "scenario-ending"
     /\ \A j \in DOMAIN chatMessages :
          chatMessages[j] # StepElement(currentScenario, currentStepIndex)
     /\ currentStepIndex' = currentStepIndex + 1
     /\ ~isPaused'

\* C12: pause() while Playing leaves currentStepIndex and the rendered steps
\* unchanged, and a following play() from PausedMidStream immediately reveals
\* the step at currentStepIndex, never re-rendering a step already revealed.
C12_PauseResume ==
  [][PauseKeepsPosition /\ ResumeRevealsNext]_vars

(***************************************************************************)
(* C13.  Play from Unstarted.                                              *)
(***************************************************************************)
\* C13: play() from Unstarted sets hasStarted and isPlaying, leaves step 0
\* rendered once, sets currentStepIndex to 1 and schedules one reveal timer,
\* the one animationTimeout names, with delay calculateDelay(step[0]).  (The
\* timeouts pending before the call are the subject of C1.)
C13_PlayFromUnstarted ==
  [][(PlayCalled /\ Unstarted)
     => /\ hasStarted' /\ isPlaying' /\ ~isPaused' /\ overlayHidden'
        /\ chatMessages' = <<StepElement(currentScenario, 0)>>
        /\ currentStepIndex' = 1
        /\ currentScenario' = currentScenario
        /\ Len(timers') = Len(timers) + 1
        /\ HeldReveal' = {Len(timers')}
        /\ timers'[Len(timers')].remaining
             = Ticks(calculateDelay(StepsOf(currentScenario)[1], speedConfig, speed))
        /\ \A j \in DOMAIN timers : timers'[j].kind = timers[j].kind]_vars

\* Scenario C was switched to by its tab at 2x, and then started with the
\* play button: its first step is shown and the second is scheduled.
C13_Witness ==
  /\ last = <<"togglePlayPause", "play">>
  /\ currentScenario = "C"
  /\ speed = 4
  /\ Playing /\ hasStarted
  /\ currentStepIndex = 1
  /\ chatMessages = Rendered("C", 1)
  /\ \E i \in HeldReveal :
       timers[i].remaining = Ticks(calculateDelay(StepsOf("C")[1], speedConfig, 4))

(***************************************************************************)
(* C14.  Reset.                                                            *)
(***************************************************************************)
\* C14: reset() in any state puts the controller in Unstarted for the same
\* scenario: currentStepIndex 0, isPlaying, isPaused and hasStarted false, no
\* reveal timer pending, the countdown stopped, and exactly the preview of
\* step 0 rendered.
C14_ResetToUnstarted ==
  [][ResetClick
     => /\ Unstarted'
        /\ currentScenario' = currentScenario
        /\ RevealTimers' = {}
        /\ ~timerAnimationFrame' /\ ~timerActive'
        /\ chatMessages' = <<StepElement(currentScenario, 0)>>
        /\ ~overlayHidden']_vars

(***************************************************************************)
(* C15.  Replay.                                                           *)
(***************************************************************************)
\* C15: play() from SceneComplete restarts the scenario: what was rendered is
\* cleared, step 0 is rendered alone (no Up Next card), currentStepIndex is 1,
\* isPlaying is true, and one reveal timer, the one animationTimeout names,
\* is scheduled with delay calculateDelay(step[0]).
C15_ReplayFromComplete ==
  [][(PlayCalled /\ SceneComplete)
     => /\ chatMessages' = <<StepElement(currentScenario, 0)>>
        /\ currentStepIndex' = 1
        /\ isPlaying' /\ ~isPaused' /\ hasStarted'
        /\ currentScenario' = currentScenario
        /\ Len(timers') = Len(timers) + 1
        /\ HeldReveal' = {Len(timers')}
        /\ timers'[Len(timers')].remaining
             = Ticks(calculateDelay(StepsOf(currentScenario)[1], speedConfig, speed))
        /\ \A j \in DOMAIN timers : timers'[j].kind = timers[j].kind]_vars

\* Scenario A was played to its end with autoAdvance off, and Enter on the
\* overlay started it again: step 0 alone is rendered, while the progress
\* text still reads the end of the run before.
C15_Witness ==
  /\ last = <<"overlayKeydown", "">>
  /\ ~autoAdvance
  /\ Playing /\ hasStarted
  /\ currentStepIndex = 1
  /\ progress = <<2, 2>>
  /\ chatMessages = Rendered("A", 1)
  /\ HeldReveal # {}

(***************************************************************************)
(* C16.  Loss of visibility.                                               *)
(***************************************************************************)
\* The document becomes hidden: nothing changes but the frame loop of the
\* countdown.
HiddenStopsFramesOnly ==
  VisibilityChange(TRUE)
  => /\ UNCHANGED <<stateVars, timers, timerElapsed, timerDuration, domVars>>
     /\ ~timerAnimationFrame'

\* The reveal timer that elapses after the document became hidden reveals
\* the next step of the scenario that is playing.
RevealAfterHidden(i) ==
  (/\ FireReveal(i)
   /\ last = <<"visibilityChange", "hidden">>
   /\ timers[i].held
   /\ Playing
   /\ currentStepIndex < Len(StepsOf(currentScenario)))
  => /\ Len(chatMessages') > Len(chatMessages)
     /\ chatMessages'[Len(chatMessages) + 1]
          = StepElement(currentScenario, currentStepIndex)
     /\ currentStepIndex' = currentStepIndex + 1

\* C16: a visibility-loss event changes only the frame loop of the visual
\* countdown (the pending reveal timer, currentScenario, currentStepIndex,
\* isPlaying, isPaused, hasStarted and speed are unchanged), and the next
\* step is still revealed when the reveal timer elapses.
C16_VisibilityLoss ==
  [][/\ HiddenStopsFramesOnly
     /\ \A i \in DOMAIN timers : RevealAfterHidden(i)]_vars

\* The document became hidden while scenario C was playing: the frame loop
\* has stopped and the reveal of the next step is still pending.
C16_Witness ==
  /\ last = <<"visibilityChange", "hidden">>
  /\ currentScenario = "C"
  /\ Playing
  /\ ~timerAnimationFrame
  /\ timerActive
  /\ \E i \in HeldReveal : timers[i].remaining > 0

(***************************************************************************)
(* C17.  A speed change while not playing.                                 *)
(***************************************************************************)
\* C17: a speed change received while the controller is not playing
\* (Unstarted, PausedMidStream, SceneComplete) sets the speed and nothing
\* else: no timeout is scheduled or cancelled, and no other variable of the
\* controller, of the countdown or of the document changes.
C17_SpeedChangeNotPlaying ==
  [][\A v \in Speeds :
       (SpeedSelect(v) /\ ~Playing)
       => /\ speed' = v
          /\ UNCHANGED <<currentScenario, currentStepIndex, isPlaying, isPaused,
                         animationTimeout, currentStepBaseDelay, hasStarted,
                         timerVars, domVars, timers>>]_vars

\* The speed was set to 4x while a scenario was paused with a step behind it.
C17_Witness ==
  /\ last = <<"speedChange", "">>
  /\ speed = 8
  /\ PausedMidStream
  /\ currentStepBaseDelay > 0
  /\ timers = << >>

(***************************************************************************)
(* C18.  The delay against its reference.                                  *)
(***************************************************************************)
\* words(str): the maximal runs of characters that are not white space.
WordsIn(str) ==
  Cardinality({i \in 1..Len(str) :
                 /\ str[i] # " "
                 /\ (i = 1 \/ str[i - 1] = " ")})

\* The reference: the word count, clamped and scaled, in milliseconds.
ReferenceWordCount(step) ==
  WordsIn(step.plainText)
  + (IF Truthy(step.codeBlock) THEN (WordsIn(step.codeBlock) * 13) \div 10 ELSE 0)
  + (IF Truthy(step.footnote) THEN WordsIn(step.footnote) ELSE 0)

ReferenceDelay(step, cfg, spd) ==
  LET raw == Times(Whole(ReferenceWordCount(step)), cfg.msPerWord)
      base == IF ~LessEq(cfg.minDelay, raw) THEN cfg.minDelay
              ELSE IF ~LessEq(raw, cfg.maxDelay) THEN cfg.maxDelay ELSE raw
      scaled == IF step.type = "annotation"
                  THEN Whole((base.n * cfg.annotationMultiplier.n)
                               \div (base.d * cfg.annotationMultiplier.d))
                  ELSE base
  IN OverSpeed(scaled, spd)

\* C18: calculateDelay equals the reference: wordCount = words(content)
\* + floor(words(codeBlock) * 1.3) + words(footnote); base = wordCount *
\* msPerWord clamped to [minDelay, maxDelay]; for an annotation floor(base *
\* annotationMultiplier); the result base / speed.
C18_DelayEqualsReference ==
  pc = "calculated" =>
    SameNumber(delayOut, ReferenceDelay(stepIn, speedConfig, speed))

(***************************************************************************)
(* C19.  Playback ends.                                                    *)
(***************************************************************************)
\* A timeout that is due runs, whichever callback it has.
FireTimeout ==
  \E i \in DOMAIN timers :
    FireReveal(i) \/ FireUpNext(i) \/ FireAdvanceFade(i) \/ FireTabFade(i)

\* A visit with one user event at most: whatever the user does first, and
\* then the page left to itself.  The runs without interruption are among
\* these, and a second event would end what C19 says of them.
PlaybackNext ==
  \/ events = 0 /\ OverlayClick
  \/ events = 0 /\ OverlayKeydown
  \/ events = 0 /\ PlayPauseClick
  \/ events = 0 /\ ResetClick
  \/ \E id \in ScenarioIds : /\ events = 0
                              /\ id \in {scenarioOrder[i] : i \in DOMAIN scenarioOrder}
                              /\ TabActivate(id)
  \/ \E v \in Speeds : events = 0 /\ SpeedSelect(v)
  \/ \E hidden \in BOOLEAN : events = 0 /\ VisibilityChange(hidden)
  \/ Advance
  \/ \E i \in DOMAIN timers : FireReveal(i)
  \/ \E i \in DOMAIN timers : FireUpNext(i)
  \/ \E i \in DOMAIN timers : FireAdvanceFade(i)
  \/ \E i \in DOMAIN timers : FireTabFade(i)

\* The page's event loop: time passes, and a timeout that is due runs.  The
\* user owes the page no event.
PlaybackSpec ==
  Init /\ [][PlaybackNext]_vars /\ WF_vars(Advance) /\ WF_vars(FireTimeout)

\* Nothing follows the last step: autoAdvance off, or one scenario only.
NoAutoAdvance == ~autoAdvance \/ ~hasMultipleScenarios

\* SceneComplete with nothing pending: no timeout, no timer animation, no Up
\* Next card, every step of the scenario rendered.
CompleteAndIdle ==
  /\ SceneComplete
  /\ timers = << >>
  /\ animationTimeout # "live"
  /\ ~timerAnimationFrame
  /\ ~timerActive
  /\ UpNextCards = {}
  /\ chatMessages = Rendered(currentScenario, Len(StepsOf(currentScenario)))

\* C19: when autoAdvance is disabled or the demo has a single scenario,
\* uninterrupted playback of an N-step scenario eventually reaches
\* SceneComplete (currentStepIndex = N, isPlaying false, no timer pending, no
\* Up Next card), and stays there until a user action.
C19_PlaybackCompletes ==
  /\ (Uninterrupted /\ NoAutoAdvance) ~> (CompleteAndIdle \/ ~Uninterrupted)
  /\ [][(Uninterrupted /\ NoAutoAdvance /\ CompleteAndIdle /\ events' = events)
          => CompleteAndIdle']_vars

\* Witness: the play overlay was clicked on the two-step scenario A and
\* nothing else was done; the timeout of step 0 has revealed step 1, the last,
\* and the scenario is complete with nothing pending.
C19_Witness ==
  /\ Uninterrupted /\ NoAutoAdvance
  /\ events = 1 /\ quiet = 1
  /\ last = <<"showNextStep", "">>
  /\ currentScenario = "A"
  /\ CompleteAndIdle
  /\ progress = <<2, 2>>

(***************************************************************************)
(* C20.  The position stays within the scenario.                           *)
(***************************************************************************)
\* C20: in every reachable state 0 <= currentStepIndex <= number of steps of
\* the current scenario, and currentScenario is one of the declared scenario
\* ids.
C20_IndexWithinScenario ==
  /\ currentScenario \in {scenarioOrder[i] : i \in DOMAIN scenarioOrder}
  /\ currentStepIndex >= 0
  /\ currentStepIndex <= Len(StepsOf(currentScenario))

\* Witness: after a switch to the tab of the three-step scenario C and a
\* click on play, a showNextStep timeout has revealed its last step: the
\* index stands at the number of steps, in a scenario that is not the first.
C20_Witness ==
  /\ currentScenario = "C"
  /\ events = 2
  /\ last = <<"showNextStep", "">>
  /\ currentStepIndex = Len(StepsOf("C"))
  /\ chatMessages = Rendered("C", 3)
  /\ timers = << >>

(***************************************************************************)
(* C21.  The countdown across a speed change.                              *)
(***************************************************************************)
\* The countdown's progress min(elapsed / timerDuration, 1) is the same for
\* <<e1, d1>> and <<e2, d2>>, the durations positive.
SameProgress(e1, d1, e2, d2) == Min(e1, d1) * d2 = Min(e2, d2) * d1

\* C21: across a speed change while Playing, the visual countdown's progress
\* fraction is continuous: elapsed / timerDuration just after the change
\* equals the fraction just before it.
C21_CountdownContinuity ==
  [][\A v \in Speeds :
       (SpeedSelect(v) /\ Playing /\ timerDuration > 0)
         => /\ timerDuration' > 0
            /\ SameProgress(timerElapsed, timerDuration,
                            timerElapsed', timerDuration')]_vars

(***************************************************************************)
(* C22.  The countdown and the reveal schedule.                            *)
(***************************************************************************)
\* The countdown runs: the timer element is active and its frame loop is on.
CountdownActive == timerActive /\ timerAnimationFrame

\* The timeouts animationTimeout names that will reveal or start the switch.
HeldSchedule ==
  {i \in DOMAIN timers : timers[i].held /\ timers[i].kind \in {"reveal", "upNext"}}

\* A listener or callback other than the speed listener has set a reveal or
\* Up Next timeout in this step: the countdown restarts at 0 over the delay
\* of that timeout.
NewDelayRestartsCountdown ==
  (/\ events' # events \/ quiet' # quiet
   /\ last'[1] # "speedChange"
   /\ HeldSchedule' # {}
   /\ \A i \in HeldSchedule' : \A j \in DOMAIN timers : timers[j] # timers'[i])
    => /\ CountdownActive'
       /\ timerElapsed' = 0
       /\ \A i \in HeldSchedule' : timerDuration' = timers'[i].remaining

\* The running countdown ends when the pending reveal timeout fires.
CountdownEndsAtReveal ==
  CountdownActive =>
    /\ HeldSchedule # {}
    /\ \A i \in HeldSchedule : timers[i].remaining = timerDuration - timerElapsed

\* C22: the visual countdown tracks the reveal schedule: every time a reveal
\* or Up Next timer is scheduled the countdown restarts at progress 0 with
\* the same duration, and whenever the countdown is active its end time
\* (timerStartTime + timerDuration) equals the fire time of the pending
\* reveal timer, also after speed changes.
C22_CountdownTracksSchedule ==
  /\ [][NewDelayRestartsCountdown]_vars
  /\ []CountdownEndsAtReveal

\* Witness: the speed was changed during the delay of the first step of C
\* and the reveal rescheduled; some time later the countdown runs, and what
\* is left of it is what is left of the timeout.
C22_Witness ==
  /\ last = <<"speedChange", "rescheduled">>
  /\ currentScenario = "C" /\ currentStepIndex = 1
  /\ CountdownActive
  /\ timerElapsed > 0
  /\ HeldSchedule # {}
  /\ \A i \in HeldSchedule :
       /\ timers[i].remaining > 0
       /\ timers[i].remaining = timerDuration - timerElapsed
       /\ timers[i].remaining < Ticks(calculateDelay(StepsOf("C")[1], speedConfig, speed))

(***************************************************************************)
(* C23.  Scenario ids are unique.                                          *)
(***************************************************************************)
\* Two scenarios of the list given have the same id once trimmed.
DuplicateGiven ==
  \E i, j \in DOMAIN rawScenarios :
    /\ i < j
    /\ rawScenarios[i].id.t = "string" /\ rawScenarios[j].id.t = "string"
    /\ Trim(rawScenarios[i].id.s) = Trim(rawScenarios[j].id.s)

\* C23: every Demo accepted by the parser has pairwise distinct scenario ids
\* (compared after trimming); an input with a duplicate scenario id is
\* rejected with an error and produces no Demo.
C23_UniqueScenarioIds ==
  /\ pc = "parsed" =>
       /\ Len(parsedScenarios) = Len(rawScenarios)
       /\ \A i \in DOMAIN parsedScenarios :
            parsedScenarios[i] = Trim(rawScenarios[i].id.s)
       /\ \A i, j \in DOMAIN parsedScenarios :
            i # j => parsedScenarios[i] # parsedScenarios[j]
  /\ (pc # "raw" /\ DuplicateGiven) =>
       pc = "rejected" /\ parseError # "" /\ parsedScenarios = << >>

\* Witness: three scenarios, the third with the id of the first followed by
\* white space, are rejected for the duplicate.
C23_Witness ==
  /\ pc = "rejected"
  /\ parseError = "duplicate scenario id"
  /\ Len(rawScenarios) = 3
  /\ rawScenarios[1].id.s = <<"a">>
  /\ rawScenarios[2].id.s = <<"b">>
  /\ rawScenarios[3].id.s = <<"a", " ">>

(***************************************************************************)
(* C24.  What is rendered.                                                 *)
(***************************************************************************)
\* The step elements rendered, in order, the Up Next cards left out.
StepElements == SelectSeq(chatMessages, LAMBDA e : e.k = "step")

\* C24: in every reachable state with reduced motion off, the rendered step
\* elements are exactly steps[0..k) of the current scenario in order, with
\* k = max(1, currentStepIndex): no step is rendered twice and none skipped.
C24_RenderedIsPrefix ==
  ~prefersReducedMotion =>
    StepElements = Rendered(currentScenario, Max(1, currentStepIndex))

(***************************************************************************)
(* C25.  One Up Next card.                                                 *)
(***************************************************************************)
\* The timeouts pending that end in the switch to the next scenario.
SwitchTimers ==
  {i \in DOMAIN timers : timers[i].kind \in {"upNext", "advanceFade"}}

\* C25: each completion of a scenario under auto-advance shows exactly one
\* Up Next card and performs exactly one switch to the next scenario, also
\* when the user pauses and resumes or changes the speed while the card is
\* displayed: the rendered content never holds two Up Next cards, and no two
\* switches are pending.
C25_OneUpNextCard ==
  /\ Cardinality(UpNextCards) <= 1
  /\ Cardinality(SwitchTimers) <= 1

(***************************************************************************)
(* C26.  User actions during the fade after Up Next.                       *)
(***************************************************************************)
\* The fade after Up Next ends (timeout i), the last thing that ran being
\* the user's pause, reset or tab switch: it was issued during the fade.
FadeEndsAfter(i, listener) ==
  FireAdvanceFade(i) /\ last[1] = listener

\* C26: a user pause, reset or tab switch issued during the 300 ms fade that
\* follows the firing of the Up Next timer is not overridden by the pending
\* automatic switch: after the fade the controller is paused, or Unstarted
\* on the scenario that was reset, or not playing the auto-advanced scenario
\* in place of the tab the user selected.
C26_FadeKeepsUserAction ==
  [][\A i \in DOMAIN timers :
       /\ (FadeEndsAfter(i, "togglePlayPause") /\ last[2] = "pause")
            => isPaused' /\ currentScenario' = currentScenario
       /\ FadeEndsAfter(i, "reset")
            => Unstarted' /\ currentScenario' = currentScenario
       /\ (FadeEndsAfter(i, "switchTab") /\ last[2] # timers[i].next)
            => ~(Playing' /\ currentScenario' = timers[i].next)]_vars

(***************************************************************************)
(* C27.  Playback does not stall.                                          *)
(***************************************************************************)
\* The pending timeouts that go on with playback: a step reveal, the Up Next
\* switch, or a fade that ends in play or in a reset of the state.
ContinuingTimers ==
  {i \in DOMAIN timers :
     timers[i].kind \in {"reveal", "upNext", "advanceFade", "tabFade"}}

\* C27: playback never stalls: in every reachable state where isPlaying is
\* true and isPaused is false, some timer that will continue playback is
\* pending.
C27_PlaybackNeverStalls == Playing => ContinuingTimers # {}

\* Witness: playing went on through a tab switch; the reveal timeout was
\* cleared by the switch, and the fade of the tab is the one timeout pending.
C27_Witness ==
  /\ Playing
  /\ last[1] = "switchTab"
  /\ Len(timers) = 1
  /\ timers[1].kind = "tabFade" /\ timers[1].wasPlaying
  /\ timers[1].remaining < TabFadeMs * TicksPerMs

(***************************************************************************)
(* C28.  The flags.                                                        *)
(***************************************************************************)
\* C28: the flags stay consistent in every reachable state: isPaused implies
\* isPlaying, and isPlaying implies hasStarted.
C28_FlagsConsistent ==
  /\ isPaused => isPlaying
  /\ isPlaying => hasStarted


(***************************************************************************)
(* C29.  Speed changes during one delay.                                   *)
(***************************************************************************)
\* The delay of a step in flight: while Playing, the reveal timeout that
\* animationTimeout names.
StepDelays ==
  {i \in DOMAIN timers :
     /\ Playing
     /\ timers[i].kind = "reveal" /\ timers[i].held /\ timers[i].base > 0}

\* The delay of a step is on schedule: the content time left of it is the
\* time left of its timeout at the speed in force, so that the timeout is
\* due when, and only when, the content time consumed has reached the base
\* delay.
OnSchedule ==
  \A i \in StepDelays :
    /\ timers[i].consumed <= timers[i].base
    /\ timers[i].remaining * speed = timers[i].base - timers[i].consumed
    /\ timers[i].remaining = 0 <=> timers[i].consumed = timers[i].base

\* A speed change made when the content time of the delay is used up, the
\* timeout due and its callback not yet run.
LateSpeedChange ==
  /\ \E v \in Speeds : SpeedSelect(v)
  /\ \E i \in StepDelays : timers[i].consumed >= timers[i].base

\* C29: for any sequence of speed changes made during one step's delay, each
\* before the step's content time is used up, the reveal fires exactly when
\* the consumed content time, the sum over the intervals of wall-clock time
\* times the multiplier in force, equals the step's base delay D: every
\* step of the player other than a late speed change keeps the delay on
\* schedule.
C29_RevealAtBaseDelay ==
  [][(OnSchedule /\ ~LateSpeedChange) => OnSchedule']_vars

\* Witness: the speed was changed twice during the delay of the first step,
\* from 1x to 2x and on to 4x, and the timeout of that delay is now due.
C29_Witness ==
  /\ events = 3
  /\ last = <<"speedChange", "rescheduled">>
  /\ speed = 8
  /\ currentStepIndex = 1
  /\ StepDelays # {}
  /\ \A i \in StepDelays :
       /\ timers[i].remaining = 0
       /\ timers[i].consumed = timers[i].base
       /\ timers[i].base = currentStepBaseDelay * SpeedDen

\* ---------------------------------------------------------------------------
\* C30  Displayed counter and play/pause control
\* ---------------------------------------------------------------------------

\* The step counter reads "currentStepIndex / steps.length" of the current
\* scenario.
CounterCurrent ==
  progress = <<currentStepIndex, Len(StepsOf(currentScenario))>>

\* The control shows the pause icon exactly while playback is active.
PauseShownWhenActive == pauseIconShown <=> (isPlaying /\ ~isPaused)

\* The control is disabled exactly when every step is revealed and playback
\* is not active.
DisabledWhenDone ==
  playPauseDisabled <=> (/\ currentStepIndex >= Len(StepsOf(currentScenario))
                         /\ ~(isPlaying /\ ~isPaused))

\* C30: after every event handler or timer callback, the displayed step
\* counter equals currentStepIndex / steps.length of the current scenario,
\* the play/pause control shows pause exactly when isPlaying and not
\* isPaused, and it is disabled exactly when all steps are revealed and
\* playback is not active.
C30_DisplayMatchesState ==
  /\ CounterCurrent
  /\ PauseShownWhenActive
  /\ DisabledWhenDone
====
